---- MODULE Spec2Model ----
(***************************************************************************)
(* Model of swimmeet_scraper.scraper.SwimMeetScraper: the response parser  *)
(* (_parse_payload, _parse_xml_content, _ensure_row_dict) and the fetch    *)
(* flow (fetch_event, _fetch_with_playwright), the table writer            *)
(* (scrape_to_csv, _collect_fieldnames) and the command-line handlers of   *)
(* swimmeet_scraper.cli (handle_fetch, handle_fetch_all).                  *)
(*                                                                         *)
(* A decoded body is a sequence of lexical tokens.  Every token carries    *)
(* its text as written (src) and lower-cased (lc); "<" occurs only as the  *)
(* first character of a markup token, so a substring test for "<xml",      *)
(* "<results" or "<html" is a test on single tokens.  Python values are    *)
(* tagged records; a dict is the sequence of its (key, value) items in     *)
(* insertion order.  Bodies are ASCII, so payload.decode(encoding,         *)
(* errors="replace") gives the text of the tokens and the payload is kept  *)
(* as that text.                                                           *)
(***************************************************************************)
EXTENDS Integers, Sequences, FiniteSets, TLC

VARIABLES pc, render_js, policy, transport, content_type, payload, parse1,
          path1, render_outcome, rendered_payload, parse2, path2, result,
          warnings, urlopenCalls, parseCalls, renderCalls,
          command, config_error, defaults, events, dry_run, next_event,
          statuses, exit_code, csvfile

\* the state of the command-line handlers around a scrape
cliVars == <<command, config_error, defaults, events, dry_run, next_event,
             statuses, exit_code, csvfile>>

vars == <<pc, render_js, policy, transport, content_type, payload, parse1,
          path1, render_outcome, rendered_payload, parse2, path2, result,
          warnings, urlopenCalls, parseCalls, renderCalls,
          command, config_error, defaults, events, dry_run, next_event,
          statuses, exit_code, csvfile>>

(***************************************************************************)
(* Bounds of the model.                                                    *)
(***************************************************************************)
\* markup tokens of a parsed body between its wrapper's tags
MaxInner == 3

\* tokens of a parsed body without markup
MaxCsvLen == 3

\* elements of a fetched body
MaxOrigElems == 1

\* elements of a rendered body
MaxRenderedElems == 2

\* rows of a batch given to the table writer
MaxRows == 3

\* events of a fetch-all configuration
MaxEvents == 2

(***************************************************************************)
(* Python values.                                                          *)
(***************************************************************************)
PyStr(s) == [t |-> "str", s |-> s, items |-> <<>>]

PyInt(s) == [t |-> "int", s |-> s, items |-> <<>>]

PyNone == [t |-> "none", s |-> "None", items |-> <<>>]

PyList(xs) == [t |-> "list", s |-> "", items |-> xs]

PyDict(kvs) == [t |-> "dict", s |-> "", items |-> kvs]

IsDict(v) == v.t = "dict"

IsList(v) == v.t = "list"

Item(k, v) == [k |-> k, v |-> v]

Keys(d) == [i \in 1..Len(d.items) |-> d.items[i].k]

KeySet(d) == {d.items[i].k : i \in 1..Len(d.items)}

HasKey(d, k) == k \in KeySet(d)

Get(d, k) == d.items[CHOOSE i \in 1..Len(d.items) : d.items[i].k = k].v

\* d[k] = v : an existing key keeps its position, a new key is appended
SetItem(d, k, v) ==
    IF HasKey(d, k)
    THEN PyDict([i \in 1..Len(d.items) |->
                    IF d.items[i].k = k THEN Item(k, v) ELSE d.items[i]])
    ELSE PyDict(Append(d.items, Item(k, v)))

RECURSIVE DictOf(_, _)
\* dict(pairs), folded from the left onto acc
DictOf(acc, pairs) ==
    IF pairs = <<>> THEN acc
    ELSE DictOf(SetItem(acc, pairs[1].k, pairs[1].v), Tail(pairs))

(***************************************************************************)
(* Tokens of a body.                                                       *)
(***************************************************************************)
\* c0 is the first character of src
Tok(src, lc, kind, name, attrs) ==
    [src |-> src, lc |-> lc, c0 |-> IF kind \in {"open", "close", "empty"} THEN "<" ELSE src,
     kind |-> kind, name |-> name, attrs |-> attrs, val |-> PyNone]

HTML_O == Tok("<html>", "<html>", "open", "html", <<>>)

HTML_C == Tok("</html>", "</html>", "close", "html", <<>>)

XML_O == Tok("<xml>", "<xml>", "open", "xml", <<>>)

XML_C == Tok("</xml>", "</xml>", "close", "xml", <<>>)

XMLU_O == Tok("<XML>", "<xml>", "open", "XML", <<>>)

XMLU_C == Tok("</XML>", "</xml>", "close", "XML", <<>>)

RES_O == Tok("<results>", "<results>", "open", "results", <<>>)

RES_C == Tok("</results>", "</results>", "close", "results", <<>>)

RESU_O == Tok("<RESULTS>", "<results>", "open", "RESULTS", <<>>)

RESU_C == Tok("</RESULTS>", "</results>", "close", "RESULTS", <<>>)

EVENT == Tok("<event name='e'/>", "<event name='e'/>", "empty", "event",
             << Item("name", PyStr("e")) >>)

\* a result element that carries every canonical attribute
R_FULL == Tok("<result rk='1' nm='A' gr='Sr' sc='W' ti='48.92' mt='m' auto='yes'/>",
              "<result rk='1' nm='a' gr='sr' sc='w' ti='48.92' mt='m' auto='yes'/>",
              "empty", "result",
              << Item("rk", PyStr("1")), Item("nm", PyStr("A")), Item("gr", PyStr("Sr")),
                 Item("sc", PyStr("W")), Item("ti", PyStr("48.92")), Item("mt", PyStr("m")),
                 Item("auto", PyStr("yes")) >>)

\* a result element that lacks canonical attributes and carries an extra one
R_PART == Tok("<result rk='2' sh='x'/>", "<result rk='2' sh='x'/>", "empty", "result",
              << Item("rk", PyStr("2")), Item("sh", PyStr("x")) >>)

R_UP == Tok("<RESULT rk='3'/>", "<result rk='3'/>", "empty", "RESULT",
            << Item("rk", PyStr("3")) >>)

WS == Tok(" ", " ", "space", "", <<>>)

NL == Tok("\n", "\n", "newline", "", <<>>)

COMMA == Tok(",", ",", "comma", "", <<>>)

TXT_A == Tok("a", "a", "text", "", <<>>)

TXT_B == Tok("B", "b", "text", "", <<>>)

LBRACE == Tok("{", "{", "text", "", <<>>)

\* an array nested more deeply than the JSON decoder's recursion limit
DEEP == [Tok("[[[[...", "[[[[...", "deep", "", <<>>) EXCEPT !.c0 = "["]

\* a complete JSON document, with the value json.loads gives for it
JsonTok(src, lc, val) ==
    [src |-> src, lc |-> lc,
     c0 |-> IF IsDict(val) THEN "{" ELSE IF IsList(val) THEN "[" ELSE src,
     kind |-> "json", name |-> "", attrs |-> <<>>, val |-> val]

ROW1 == PyDict(<< Item("rk", PyStr("1")) >>)

J_OBJ == JsonTok("{\"rk\": \"1\"}", "{\"rk\": \"1\"}", ROW1)

J_RES == JsonTok("{\"results\": [{\"rk\": \"1\"}]}", "{\"results\": [{\"rk\": \"1\"}]}",
                 PyDict(<< Item("results", PyList(<<ROW1>>)) >>))

J_RESNUM == JsonTok("{\"results\": 5}", "{\"results\": 5}",
                    PyDict(<< Item("results", PyInt("5")) >>))

J_ARR == JsonTok("[{\"rk\": \"1\"}]", "[{\"rk\": \"1\"}]", PyList(<<ROW1>>))

J_ARRNUM == JsonTok("[1]", "[1]", PyList(<<PyInt("1")>>))

J_NUM == JsonTok("7", "7", PyInt("7"))

ROW2 == PyDict(<< Item("rk", PyStr("2")), Item("nm", PyStr("B")) >>)

J_OBJ2 == JsonTok("{\"rk\": \"2\", \"nm\": \"B\"}", "{\"rk\": \"2\", \"nm\": \"b\"}", ROW2)

J_ARR2 == JsonTok("[{\"rk\": \"2\", \"nm\": \"B\"}, {\"rk\": \"1\"}]",
                  "[{\"rk\": \"2\", \"nm\": \"b\"}, {\"rk\": \"1\"}]",
                  PyList(<<ROW2, ROW1>>))

\* an array whose second element is not an object
J_MIXED == JsonTok("[{\"rk\": \"1\"}, 5, {\"rk\": \"2\", \"nm\": \"B\"}]",
                   "[{\"rk\": \"1\"}, 5, {\"rk\": \"2\", \"nm\": \"b\"}]",
                   PyList(<<ROW1, PyInt("5"), ROW2>>))

J_EMPTYARR == JsonTok("[]", "[]", PyList(<<>>))

J_RES2 == JsonTok("{\"results\": [{\"rk\": \"1\"}, {\"rk\": \"2\", \"nm\": \"B\"}]}",
                  "{\"results\": [{\"rk\": \"1\"}, {\"rk\": \"2\", \"nm\": \"b\"}]}",
                  PyDict(<< Item("results", PyList(<<ROW1, ROW2>>)) >>))

J_RESMIXED == JsonTok("{\"results\": [{\"rk\": \"1\"}, [1]]}",
                      "{\"results\": [{\"rk\": \"1\"}, [1]]}",
                      PyDict(<< Item("results",
                                     PyList(<<ROW1, PyList(<<PyInt("1")>>)>>)) >>))

\* an object whose results member is an object, not an array
J_RESOBJ == JsonTok("{\"results\": {\"rk\": \"1\"}}", "{\"results\": {\"rk\": \"1\"}}",
                    PyDict(<< Item("results", ROW1) >>))

J_STR == JsonTok("\"s\"", "\"s\"", PyStr("s"))

J_NULL == JsonTok("null", "null", PyNone)

SCRIPT_O == Tok("<script>", "<script>", "open", "script", <<>>)

SCRIPT_C == Tok("</script>", "</script>", "close", "script", <<>>)

\* the script source around the embedded fragment: var xml = "...";
VAR_XML == Tok("var xml = \"", "var xml = \"", "text", "", <<>>)

END_VAR == Tok("\";", "\";", "text", "", <<>>)

\* markup whose angle brackets are written as the entities &lt; and &gt;
E_XML_O == Tok("&lt;xml&gt;", "&lt;xml&gt;", "text", "", <<>>)

E_XML_C == Tok("&lt;/xml&gt;", "&lt;/xml&gt;", "text", "", <<>>)

E_RES_O == Tok("&lt;results&gt;", "&lt;results&gt;", "text", "", <<>>)

E_RES_C == Tok("&lt;/results&gt;", "&lt;/results&gt;", "text", "", <<>>)

E_R_PART == Tok("&lt;result rk='2' sh='x'/&gt;", "&lt;result rk='2' sh='x'/&gt;",
                "text", "", <<>>)

(***************************************************************************)
(* Text helpers.                                                           *)
(***************************************************************************)
IsSpace(tok) == tok.kind \in {"space", "newline"}

RECURSIVE LStrip(_)
LStrip(text) ==
    IF text # <<>> /\ IsSpace(Head(text)) THEN LStrip(Tail(text)) ELSE text

RECURSIVE RStrip(_)
RStrip(text) ==
    IF text # <<>> /\ IsSpace(text[Len(text)])
    THEN RStrip(SubSeq(text, 1, Len(text) - 1)) ELSE text

Strip(text) == RStrip(LStrip(text))

\* sub in text, for a sub that begins with "<" and holds no ">"
Contains(text, sub, lowered) ==
    \E i \in 1..Len(text) :
        LET s == IF lowered THEN text[i].lc ELSE text[i].src
        IN  \/ sub = "<xml" /\ s = "<xml>"
            \/ sub = "<results" /\ s = "<results>"
            \/ sub = "<html" /\ s = "<html>"

StartsWith(text, ch) == text # <<>> /\ Head(text).c0 = ch

CtLower(ct) ==
    CASE ct = "Text/XML" -> "text/xml"
      [] ct = "Application/JSON" -> "application/json"
      [] OTHER -> ct

\* sub in ct, for the lower-cased content types of the model
CtContains(ct, sub) ==
    \/ sub = "xml" /\ ct \in {"text/xml", "application/xml"}
    \/ sub = "json" /\ ct \in {"application/json"}

(***************************************************************************)
(* Outcomes of a call: a returned row list or a raised exception.          *)
(***************************************************************************)
Return(rows) == [kind |-> "return", rows |-> rows, exc |-> "", msg |-> ""]

Raise(exc, msg) == [kind |-> "raise", rows |-> <<>>, exc |-> exc, msg |-> msg]

ScraperError(msg) == Raise("SwimMeetScraperError", msg)

IsScraperError(r) == r.kind = "raise" /\ r.exc = "SwimMeetScraperError"

\* the outcome before a call has ended
NoOutcome == [kind |-> "none", rows |-> <<>>, exc |-> "", msg |-> ""]

(***************************************************************************)
(* _parse_xml_content.                                                     *)
(***************************************************************************)
\* positions of the tokens that re.search's "<results[^>]*>" can match
ResultsOpens(text) ==
    {i \in 1..Len(text) : text[i].kind = "open" /\ text[i].lc = "<results>"}

ResultsCloses(text, i) ==
    {j \in (i + 1)..Len(text) : text[j].kind = "close" /\ text[j].lc = "</results>"}

Min(S) == CHOOSE x \in S : \A y \in S : x <= y

\* re.search(r"(<results[^>]*>.*?</results>)", text, IGNORECASE | DOTALL):
\* the leftmost opening tag that a closing tag follows, up to the first
\* closing tag after it; <<>> stands for no match
SearchResultsBlock(text) ==
    LET starts == {i \in ResultsOpens(text) : ResultsCloses(text, i) # {}}
    IN  IF starts = {} THEN <<>>
        ELSE SubSeq(text, Min(starts), Min(ResultsCloses(text, Min(starts))))

RECURSIVE WellFormed(_, _, _)
\* ElementTree.fromstring accepts xml_text: one root element, tags closed in
\* order under the name they were opened with, character data only inside
\* the root.  stack holds the names of the open elements.
WellFormed(xml_text, stack, rooted) ==
    IF xml_text = <<>> THEN stack = <<>> /\ rooted
    ELSE LET tok == Head(xml_text)
             rest == Tail(xml_text)
         IN  CASE tok.kind = "open" ->
                    /\ ~(stack = <<>> /\ rooted)
                    /\ WellFormed(rest, <<tok.name>> \o stack, TRUE)
               [] tok.kind = "close" ->
                    /\ stack # <<>>
                    /\ Head(stack) = tok.name
                    /\ WellFormed(rest, Tail(stack), rooted)
               [] tok.kind = "empty" ->
                    /\ ~(stack = <<>> /\ rooted)
                    /\ WellFormed(rest, stack, TRUE)
               [] IsSpace(tok) -> WellFormed(rest, stack, rooted)
               [] OTHER -> stack # <<>> /\ WellFormed(rest, stack, rooted)

\* the elements of the parsed document below its root, in document order
Descendants(xml_text) ==
    LET doc == Strip(xml_text)
    IN  IF Len(doc) < 2 THEN <<>>
        ELSE SelectSeq(SubSeq(doc, 2, Len(doc) - 1),
                       LAMBDA tok : tok.kind \in {"open", "empty"})

\* root.findall(".//result")
FindAllResult(xml_text) ==
    SelectSeq(Descendants(xml_text), LAMBDA el : el.name = "result")

\* dict(result.attrib)
RowOfElement(el) == PyDict(el.attrs)

RowsOfElements(els) == [i \in 1..Len(els) |-> RowOfElement(els[i])]

\* xml_text = m.group(1) if m else text.strip()
XmlTextOf(text) ==
    LET m == SearchResultsBlock(text)
    IN  IF m # <<>> THEN m ELSE Strip(text)

\* _parse_xml_content without the check for an empty row list
ParseXmlContent_EmptyAllowed(text) ==
    IF Contains(text, "<html", TRUE)
    THEN ScraperError("Got HTML instead of XML")
    ELSE IF ~WellFormed(XmlTextOf(text), <<>>, FALSE)
    THEN ScraperError("Response contained invalid XML")
    ELSE Return(RowsOfElements(FindAllResult(XmlTextOf(text))))

_parse_xml_content(text) ==
    IF Contains(text, "<html", TRUE)
    THEN ScraperError("Got HTML instead of XML")
    ELSE LET xml_text == XmlTextOf(text)
         IN  IF ~WellFormed(xml_text, <<>>, FALSE)
             THEN ScraperError("Response contained invalid XML")
             ELSE LET rows == RowsOfElements(FindAllResult(xml_text))
                  IN  IF rows = <<>>
                      THEN ScraperError("XML payload did not include any results")
                      ELSE Return(rows)

(***************************************************************************)
(* _ensure_row_dict, the JSON branch and the CSV branch of _parse_payload. *)
(***************************************************************************)
\* the key None, which csv.DictReader gives to the cells beyond the header
NoneKey == "<None>"

\* str(key)
StrOfKey(k) == IF k = NoneKey THEN "None" ELSE k

\* {str(key): value for key, value in row.items()}
StrKeyed(row) ==
    DictOf(PyDict(<<>>),
           [i \in 1..Len(row.items) |-> Item(StrOfKey(row.items[i].k), row.items[i].v)])

_ensure_row_dict(row) ==
    IF ~IsDict(row) THEN ScraperError("Result row must be a mapping")
    ELSE Return(<<StrKeyed(row)>>)

RECURSIVE EnsureAll(_)
\* [self._ensure_row_dict(item) for item in items]: the first raise ends it
EnsureAll(items) ==
    IF items = <<>> THEN Return(<<>>)
    ELSE LET first == _ensure_row_dict(Head(items))
         IN  IF first.kind = "raise" THEN first
             ELSE LET rest == EnsureAll(Tail(items))
                  IN  IF rest.kind = "raise" THEN rest
                      ELSE Return(first.rows \o rest.rows)

\* json.loads(text): the parsed value in a Return, or the raised exception
JsonLoads(text) ==
    LET doc == Strip(text)
    IN  IF doc # <<>> /\ Head(doc).kind = "deep"
        THEN Raise("RecursionError", "maximum recursion depth exceeded")
        ELSE IF Len(doc) = 1 /\ doc[1].kind = "json"
        THEN Return(<<doc[1].val>>)
        ELSE Raise("JSONDecodeError", "")

\* ParseJson that leaves out the candidates that are not objects
ParseJson_DropBad(text) ==
    LET loaded == JsonLoads(text)
    IN  IF loaded.kind = "raise"
        THEN IF loaded.exc = "JSONDecodeError"
             THEN ScraperError("Response was not valid JSON")
             ELSE loaded
        ELSE LET parsed == loaded.rows[1]
             IN  IF IsDict(parsed)
                 THEN IF HasKey(parsed, "results") /\ IsList(Get(parsed, "results"))
                      THEN EnsureAll(SelectSeq(Get(parsed, "results").items, IsDict))
                      ELSE EnsureAll(<<parsed>>)
                 ELSE IF IsList(parsed)
                 THEN EnsureAll(SelectSeq(parsed.items, IsDict))
                 ELSE ScraperError("JSON payload was not a list or dict")

ParseJson(text) ==
    LET loaded == JsonLoads(text)
    IN  IF loaded.kind = "raise"
        THEN IF loaded.exc = "JSONDecodeError"
             THEN ScraperError("Response was not valid JSON")
             ELSE loaded
        ELSE LET parsed == loaded.rows[1]
             IN  IF IsDict(parsed)
                 THEN IF HasKey(parsed, "results") /\ IsList(Get(parsed, "results"))
                      THEN EnsureAll(Get(parsed, "results").items)
                      ELSE EnsureAll(<<parsed>>)
                 ELSE IF IsList(parsed)
                 THEN EnsureAll(parsed.items)
                 ELSE ScraperError("JSON payload was not a list or dict")

RECURSIVE SplitOn(_, _, _)
\* text cut at every token of the kind sep; cur is the piece being read
SplitOn(text, sep, cur) ==
    IF text = <<>> THEN <<cur>>
    ELSE IF Head(text).kind = sep THEN <<cur>> \o SplitOn(Tail(text), sep, <<>>)
    ELSE SplitOn(Tail(text), sep, Append(cur, Head(text)))

\* text.splitlines(): no empty last line after a final line break
SplitLines(text) ==
    LET pieces == SplitOn(text, "newline", <<>>)
    IN  IF pieces[Len(pieces)] = <<>> THEN SubSeq(pieces, 1, Len(pieces) - 1)
        ELSE pieces

RECURSIVE Join(_)
Join(toks) == IF toks = <<>> THEN "" ELSE Head(toks).src \o Join(Tail(toks))

\* the row csv.reader gives for one line: no cell for an empty line
Cells(line) ==
    IF line = <<>> THEN <<>>
    ELSE LET pieces == SplitOn(line, "comma", <<>>)
         IN  [i \in 1..Len(pieces) |-> Join(pieces[i])]

\* the dict csv.DictReader builds from one non-empty row
DictReaderRow(fieldnames, row) ==
    LET lf == Len(fieldnames)
        lr == Len(row)
        n == IF lf < lr THEN lf ELSE lr
        zipped == DictOf(PyDict(<<>>),
                         [i \in 1..n |-> Item(fieldnames[i], PyStr(row[i]))])
    IN  IF lf < lr
        THEN SetItem(zipped, NoneKey,
                     PyList([i \in 1..(lr - lf) |-> PyStr(row[lf + i])]))
        ELSE DictOf(zipped, [i \in 1..(lf - lr) |-> Item(fieldnames[lr + i], PyNone)])

ParseCsv(text) ==
    LET lines == SplitLines(text)
    IN  IF lines = <<>> THEN ScraperError("CSV payload missing headers")
        ELSE LET fieldnames == Cells(lines[1])
                 data == SelectSeq([i \in 1..(Len(lines) - 1) |-> Cells(lines[i + 1])],
                                   LAMBDA row : row # <<>>)
             IN  EnsureAll([i \in 1..Len(data) |-> DictReaderRow(fieldnames, data[i])])

(***************************************************************************)
(* _parse_payload.                                                         *)
(***************************************************************************)
\* ChooseParser with the JSON conditions tried before the XML conditions
ChooseParser_JsonFirst(text, ct) ==
    IF CtContains(ct, "json") \/ StartsWith(LStrip(text), "{")
                              \/ StartsWith(LStrip(text), "[")
    THEN "json"
    ELSE IF CtContains(ct, "xml") \/ Contains(text, "<xml", TRUE)
                                  \/ Contains(text, "<results", TRUE)
    THEN "xml"
    ELSE "csv"

\* the parser the "# 2) Choose parser" conditions select
ChooseParser(text, ct) ==
    IF CtContains(ct, "xml") \/ Contains(text, "<xml", TRUE)
                             \/ Contains(text, "<results", TRUE)
    THEN "xml"
    ELSE IF CtContains(ct, "json") \/ StartsWith(LStrip(text), "{")
                                   \/ StartsWith(LStrip(text), "[")
    THEN "json"
    ELSE "csv"

ParserOf(text, raw_content_type) == ChooseParser(text, CtLower(raw_content_type))

_parse_payload(text, raw_content_type) ==
    LET parser == ParserOf(text, raw_content_type)
    IN  CASE parser = "xml" -> _parse_xml_content(text)
          [] parser = "json" -> ParseJson(text)
          [] OTHER -> ParseCsv(text)

(***************************************************************************)
(* The bodies and content types the calls are given.                       *)
(***************************************************************************)
SeqsUpTo(S, n) == UNION {[1..k -> S] : k \in 0..n}

Wrappers == {"none", "html", "xml", "htmlxml", "XML", "text"}

Pre(w) ==
    CASE w = "html" -> <<HTML_O>>
      [] w = "xml" -> <<XML_O>>
      [] w = "htmlxml" -> <<HTML_O, XML_O>>
      [] w = "XML" -> <<XMLU_O>>
      [] w = "text" -> <<TXT_A>>
      [] OTHER -> <<>>

Post(w) ==
    CASE w = "html" -> <<HTML_C>>
      [] w = "xml" -> <<XML_C>>
      [] w = "htmlxml" -> <<XML_C, HTML_C>>
      [] w = "XML" -> <<XMLU_C>>
      [] OTHER -> <<>>

Wrap(w, inner) == Pre(w) \o inner \o Post(w)

MarkupTokens == {RES_O, RES_C, RESU_O, RESU_C, EVENT, R_PART, R_UP}

MarkupBodies(n) == {Wrap(w, inner) : w \in Wrappers, inner \in SeqsUpTo(MarkupTokens, n)}

JsonTokens ==
    {J_OBJ, J_RES, J_RESNUM, J_ARR, J_ARRNUM, J_NUM, J_OBJ2, J_ARR2, J_MIXED, J_EMPTYARR,
     J_RES2, J_RESMIXED, J_RESOBJ, J_STR, J_NULL, DEEP, LBRACE}

JsonBodies ==
    UNION {{<<j>>, <<WS, j>>, <<j, NL>>, <<j, TXT_A>>, <<TXT_A, j>>} : j \in JsonTokens}

CsvTokens == {TXT_A, TXT_B, COMMA, NL}

CsvBodies(n) == SeqsUpTo(CsvTokens, n)

\* an element list, bare or inside a results block, inside a wrapper
ElementTokens == {EVENT, R_FULL, R_PART}

Documents(n) ==
    {Wrap(w, els) : w \in Wrappers, els \in SeqsUpTo(ElementTokens, n)}
    \cup {Wrap(w, <<RES_O>> \o els \o <<RES_C>>) :
              w \in Wrappers, els \in SeqsUpTo(ElementTokens, n)}

\* a results fragment with entity-escaped markup, bare or inside a script
\* block of an HTML page
EscapedFragments ==
    {<<E_XML_O, E_RES_O>> \o els \o <<E_RES_C, E_XML_C>> :
         els \in {<<>>, <<E_R_PART>>, <<E_R_PART, E_R_PART>>}}

InScript(fragment) ==
    <<HTML_O, SCRIPT_O, VAR_XML>> \o fragment \o <<END_VAR, SCRIPT_C, HTML_C>>

EscapedBodies == EscapedFragments \cup {InScript(f) : f \in EscapedFragments}

ParsedBodies ==
    MarkupBodies(MaxInner) \cup JsonBodies \cup CsvBodies(MaxCsvLen) \cup EscapedBodies

OrigBodies == Documents(MaxOrigElems) \cup {<<J_OBJ>>, <<J_ARRNUM>>, <<DEEP>>, <<>>}

RenderedBodies == Documents(MaxRenderedElems) \cup {<<J_OBJ>>, <<DEEP>>, <<>>}

ContentTypes == {"", "text/html", "application/xml", "Text/XML", "application/json"}

FetchContentTypes == {"text/html", "application/xml", "application/json"}

\* what urlopen raises instead of answering
TransportFailures == {"HTTPError", "URLError", "Exception"}

\* what the caller wants of a fetch that ends without rows; fetch_event has
\* no parameter that carries it
Policies == {"strict", "lenient"}

(***************************************************************************)
(* The table scrape_to_csv writes.                                         *)
(***************************************************************************)
Range(f) == {f[i] : i \in 1..Len(f)}

RECURSIVE CollectKeys(_, _)
\* for key in row.keys(): if key not in fieldnames: fieldnames.append(key)
CollectKeys(fieldnames, keys) ==
    IF keys = <<>> THEN fieldnames
    ELSE CollectKeys(IF Head(keys) \in Range(fieldnames) THEN fieldnames
                     ELSE Append(fieldnames, Head(keys)),
                     Tail(keys))

RECURSIVE CollectRows(_, _)
\* for row in rows: the loop over its keys
CollectRows(fieldnames, rows) ==
    IF rows = <<>> THEN fieldnames
    ELSE CollectRows(CollectKeys(fieldnames, Keys(Head(rows))), Tail(rows))

RECURSIVE AllKeys(_)
AllKeys(rows) == IF rows = <<>> THEN <<>> ELSE Keys(Head(rows)) \o AllKeys(Tail(rows))

\* _collect_fieldnames that appends every key of every row
CollectFieldnames_Repeats(rows) == AllKeys(rows)

_collect_fieldnames(rows) == CollectRows(<<>>, rows)

RECURSIVE Repr(_)
\* repr(value)
Repr(value) ==
    LET n == Len(value.items)
        part(i) == IF value.t = "dict"
                   THEN "'" \o value.items[i].k \o "': " \o Repr(value.items[i].v)
                   ELSE Repr(value.items[i])
        joined[i \in 0..n] ==
            IF i = 0 THEN ""
            ELSE IF i = 1 THEN part(1)
            ELSE joined[i - 1] \o ", " \o part(i)
    IN  CASE value.t = "str" -> "'" \o value.s \o "'"
          [] value.t = "list" -> "[" \o joined[n] \o "]"
          [] value.t = "dict" -> "{" \o joined[n] \o "}"
          [] OTHER -> value.s

\* the text csv.writer writes for one value: nothing for None, str(value)
\* for any other
CellText(value) ==
    CASE value.t = "none" -> ""
      [] value.t = "str" -> value.s
      [] OTHER -> Repr(value)

\* writer.writerow({key: row.get(key, "") for key in fieldnames}): the cells
\* in the order of the header
WrittenRow(fieldnames, row) ==
    [i \in 1..Len(fieldnames) |->
        CellText(IF HasKey(row, fieldnames[i]) THEN Get(row, fieldnames[i])
                 ELSE PyStr(""))]

\* no file has been written
NoFile == [written |-> FALSE, header |-> <<>>, rows |-> <<>>]

\* the file after writeheader() and one writerow() per row
WriteCsv(rows) ==
    LET fieldnames == _collect_fieldnames(rows)
    IN  [written |-> TRUE, header |-> fieldnames,
         rows |-> [i \in 1..Len(rows) |-> WrittenRow(fieldnames, rows[i])]]

\* how scrape_to_csv ends after fetch_event: the exception goes on to the
\* caller, or the file is written, with a warning when there is no row
AfterFetchEvent(fetched) ==
    IF fetched.kind = "return"
    THEN [raised |-> FALSE, file |-> WriteCsv(fetched.rows),
          warned |-> IF fetched.rows = <<>> THEN 1 ELSE 0]
    ELSE [raised |-> TRUE, file |-> NoFile, warned |-> 0]

\* the handlers' state while no command runs
CliIdle(caller) ==
    /\ command = caller
    /\ config_error = FALSE
    /\ defaults = <<>>
    /\ events = <<>>
    /\ dry_run = FALSE
    /\ next_event = 1
    /\ statuses = <<>>
    /\ exit_code = 0
    /\ csvfile = NoFile

(***************************************************************************)
(* fetch_event, one action per step between its external calls.            *)
(***************************************************************************)
Init ==
    /\ CliIdle("fetch_event")
    /\ pc = "start"
    /\ render_js \in BOOLEAN
    /\ policy \in Policies
    /\ transport = "none"
    /\ render_outcome = NoOutcome
    /\ content_type = ""
    /\ payload = <<>>
    /\ rendered_payload = <<>>
    /\ parse1 = NoOutcome
    /\ parse2 = NoOutcome
    /\ path1 = ""
    /\ path2 = ""
    /\ result = NoOutcome
    /\ warnings = 0
    /\ urlopenCalls = 0
    /\ parseCalls = 0
    /\ renderCalls = 0

\* the message fetch_event raises for a failure of urlopen
TransportMessage(failure) ==
    CASE failure = "HTTPError" -> "HTTP error while fetching"
      [] failure = "URLError" -> "Network error while fetching"
      [] OTHER -> "Unexpected error while fetching"

\* urlopen(request, timeout) answers with a content type and a body
UrlopenRespondsWith(bodies) ==
    /\ pc = "start"
    /\ \E ct \in FetchContentTypes, body \in bodies :
          /\ content_type' = ct
          /\ payload' = body
    /\ transport' = "response"
    /\ urlopenCalls' = urlopenCalls + 1
    /\ pc' = "fetched"
    /\ UNCHANGED <<render_js, policy, render_outcome, rendered_payload, parse1, parse2,
                   path1, path2, result, warnings, parseCalls, renderCalls>>
    /\ UNCHANGED cliVars

UrlopenResponds == UrlopenRespondsWith(OrigBodies)

\* AfterTransportFailure that logs the failure and returns no rows
AfterTransportFailure_Skip(failure) == [pc |-> "done", result |-> Return(<<>>)]

\* how fetch_event goes on after urlopen has raised
AfterTransportFailure(failure) ==
    [pc |-> "done", result |-> ScraperError(TransportMessage(failure))]

\* urlopen raises: the handlers of the first try statement
UrlopenFails ==
    /\ pc = "start"
    /\ \E failure \in TransportFailures :
          LET next == AfterTransportFailure(failure)
          IN  /\ transport' = failure
              /\ pc' = next.pc
              /\ result' = next.result
    /\ urlopenCalls' = urlopenCalls + 1
    /\ UNCHANGED <<render_js, policy, content_type, payload, render_outcome,
                   rendered_payload, parse1, parse2, path1, path2, warnings,
                   parseCalls, renderCalls>>
    /\ UNCHANGED cliVars

\* AfterFirstParse that renders whenever rendering is permitted
AfterFirstParse_RenderAlways(parsed, render) ==
    IF render THEN [pc |-> "rendering", result |-> NoOutcome, warned |-> 0]
    ELSE IF parsed.kind = "return" THEN [pc |-> "done", result |-> parsed, warned |-> 0]
    ELSE IF IsScraperError(parsed)
    THEN [pc |-> "done", result |-> Return(<<>>), warned |-> 1]
    ELSE [pc |-> "done", result |-> ScraperError("Failed to parse response"),
          warned |-> 0]

\* how fetch_event goes on after the parse of the original body
AfterFirstParse(parsed, render) ==
    IF parsed.kind = "return" THEN [pc |-> "done", result |-> parsed, warned |-> 0]
    ELSE IF IsScraperError(parsed)
    THEN IF ~render
         THEN [pc |-> "done", result |-> Return(<<>>), warned |-> 1]
         ELSE [pc |-> "rendering", result |-> NoOutcome, warned |-> 0]
    ELSE [pc |-> "done", result |-> ScraperError("Failed to parse response"),
          warned |-> 0]

\* self._parse_payload(payload, content_type) and the handlers around it
ParseOriginal ==
    /\ pc = "fetched"
    /\ LET parsed == _parse_payload(payload, content_type)
           next == AfterFirstParse(parsed, render_js)
       IN  /\ parse1' = parsed
           /\ path1' = ParserOf(payload, content_type)
           /\ pc' = next.pc
           /\ result' = next.result
           /\ warnings' = warnings + next.warned
    /\ parseCalls' = parseCalls + 1
    /\ UNCHANGED <<render_js, policy, transport, content_type, payload, render_outcome,
                   rendered_payload, parse2, path2, urlopenCalls, renderCalls>>
    /\ UNCHANGED cliVars

\* what a call of _fetch_with_playwright ends with
RenderOutcomesOf(bodies) ==
    {ScraperError("Playwright is not installed"), Raise("PlaywrightError", "")}
    \cup {Return(<<body>>) : body \in bodies}

RenderOutcomes == RenderOutcomesOf(RenderedBodies)

\* AfterRender that skips rendering when the renderer is not installed
AfterRender_SkipUnavailable(rendered) ==
    IF rendered.kind = "return"
    THEN [pc |-> "rendered", result |-> NoOutcome, body |-> rendered.rows[1]]
    ELSE IF IsScraperError(rendered)
    THEN [pc |-> "done", result |-> Return(<<>>), body |-> <<>>]
    ELSE [pc |-> "done", result |-> rendered, body |-> <<>>]

\* how fetch_event goes on after _fetch_with_playwright
AfterRender(rendered) ==
    IF rendered.kind = "return"
    THEN [pc |-> "rendered", result |-> NoOutcome, body |-> rendered.rows[1]]
    ELSE [pc |-> "done", result |-> rendered, body |-> <<>>]

\* self._fetch_with_playwright(url, timeout) in the parse-failure handler
RenderWith(outcomes) ==
    /\ pc = "rendering"
    /\ \E rendered \in outcomes :
          LET next == AfterRender(rendered)
          IN  /\ pc' = next.pc
              /\ result' = next.result
              /\ rendered_payload' = next.body
              /\ render_outcome' = rendered
    /\ renderCalls' = renderCalls + 1
    /\ UNCHANGED <<render_js, policy, transport, content_type, payload, parse1, parse2,
                   path1, path2, warnings, urlopenCalls, parseCalls>>
    /\ UNCHANGED cliVars

Render == RenderWith(RenderOutcomes)

\* AfterReparse that renders again when the rendered body fails to parse
AfterReparse_Retry(parsed) ==
    IF IsScraperError(parsed)
    THEN [pc |-> "rendering", result |-> NoOutcome, warned |-> 0]
    ELSE [pc |-> "done", result |-> parsed, warned |-> 0]

\* how fetch_event ends after the parse of the rendered body
AfterReparse(parsed) ==
    IF IsScraperError(parsed) THEN [pc |-> "done", result |-> Return(<<>>), warned |-> 1]
    ELSE [pc |-> "done", result |-> parsed, warned |-> 0]

\* the content type the rendered body is parsed under
RenderedContentType == "text/html"

\* self._parse_payload(rendered_payload, "text/html") and its handler
Reparse ==
    /\ pc = "rendered"
    /\ LET parsed == _parse_payload(rendered_payload, RenderedContentType)
           next == AfterReparse(parsed)
       IN  /\ parse2' = parsed
           /\ path2' = ParserOf(rendered_payload, RenderedContentType)
           /\ pc' = next.pc
           /\ result' = next.result
           /\ warnings' = warnings + next.warned
    /\ parseCalls' = parseCalls + 1
    /\ UNCHANGED <<render_js, policy, transport, content_type, payload, render_outcome,
                   rendered_payload, parse1, path1, urlopenCalls, renderCalls>>
    /\ UNCHANGED cliVars

Next == UrlopenResponds \/ UrlopenFails \/ ParseOriginal \/ Render \/ Reparse

Spec == Init /\ [][Next]_vars

\* one body for each way a parse can end: no header, a decoder error that
\* is not the parser's own, one JSON row, one XML row, an HTML page
FlowBodies ==
    {<<>>, <<DEEP>>, <<J_OBJ>>, Wrap("xml", <<R_FULL>>), Wrap("html", <<R_FULL>>)}

\* what the renderer ends with when it is given these bodies
FlowRenderOutcomes == RenderOutcomesOf(FlowBodies)

NextFlow ==
    \/ UrlopenRespondsWith(FlowBodies)
    \/ UrlopenFails
    \/ ParseOriginal
    \/ RenderWith(FlowRenderOutcomes)
    \/ Reparse

\* fetch_event is sequential code and each of its external calls returns or
\* raises (urlopen and the renderer are given a timeout), so a step that can
\* be taken is taken
FairSpec == Init /\ [][NextFlow]_vars /\ WF_vars(NextFlow)

(***************************************************************************)
(* _parse_payload called on its own, as the parser tests call it.          *)
(***************************************************************************)
InitParse ==
    /\ CliIdle("_parse_payload")
    /\ pc = "call"
    /\ content_type \in ContentTypes
    /\ payload \in ParsedBodies
    /\ render_js = FALSE
    /\ policy = "lenient"
    /\ transport = "none"
    /\ render_outcome = NoOutcome
    /\ rendered_payload = <<>>
    /\ parse1 = NoOutcome
    /\ parse2 = NoOutcome
    /\ path1 = ""
    /\ path2 = ""
    /\ result = NoOutcome
    /\ warnings = 0
    /\ urlopenCalls = 0
    /\ parseCalls = 0
    /\ renderCalls = 0

CallParsePayload ==
    /\ pc = "call"
    /\ parse1' = _parse_payload(payload, content_type)
    /\ path1' = ParserOf(payload, content_type)
    /\ result' = parse1'
    /\ pc' = "returned"
    /\ parseCalls' = parseCalls + 1
    /\ UNCHANGED <<render_js, policy, transport, content_type, payload, render_outcome,
                   rendered_payload, parse2, path2, warnings, urlopenCalls, renderCalls>>
    /\ UNCHANGED cliVars

SpecParse == InitParse /\ [][CallParsePayload]_vars

(***************************************************************************)
(* The table writer of scrape_to_csv on its own, given a batch of rows.    *)
(***************************************************************************)
\* rows with one key, with several keys, with the same keys in another
\* order, with no key, with the value None, and with the cells beyond the
\* header that the CSV branch puts under str(None)
RowPool ==
    {ROW1, ROW2, PyDict(<<>>),
     PyDict(<< Item("nm", PyStr("A")), Item("rk", PyStr("3")) >>),
     PyDict(<< Item("sh", PyNone) >>),
     PyDict(<< Item("None", PyList(<<PyStr("a"), PyStr("b")>>)) >>)}

RowBatches(n) == SeqsUpTo(RowPool, n)

InitWrite ==
    /\ CliIdle("scrape_to_csv")
    /\ pc = "done"
    /\ result \in {Return(rows) : rows \in RowBatches(MaxRows)}
    /\ render_js = FALSE
    /\ policy = "lenient"
    /\ transport = "response"
    /\ render_outcome = NoOutcome
    /\ content_type = ""
    /\ payload = <<>>
    /\ rendered_payload = <<>>
    /\ parse1 = NoOutcome
    /\ parse2 = NoOutcome
    /\ path1 = ""
    /\ path2 = ""
    /\ warnings = 0
    /\ urlopenCalls = 0
    /\ parseCalls = 0
    /\ renderCalls = 0

\* scrape_to_csv from the return of fetch_event to its own return
ScrapeToCsvWrites ==
    /\ pc = "done"
    /\ command = "scrape_to_csv"
    /\ LET out == AfterFetchEvent(result)
       IN  /\ csvfile' = out.file
           /\ warnings' = warnings + out.warned
    /\ pc' = "written"
    /\ UNCHANGED <<render_js, policy, transport, content_type, payload, parse1, path1,
                   render_outcome, rendered_payload, parse2, path2, result,
                   urlopenCalls, parseCalls, renderCalls>>
    /\ UNCHANGED <<command, config_error, defaults, events, dry_run, next_event,
                   statuses, exit_code>>

SpecWrite == InitWrite /\ [][ScrapeToCsvWrites]_vars

(***************************************************************************)
(* The command-line handlers handle_fetch and handle_fetch_all, next to a  *)
(* caller that calls fetch_event itself.                                   *)
(***************************************************************************)
CliCommands == {"fetch", "fetch-all"}

\* required = {"season", "phase", "gender", "division", "event_slug", "state"}
RequiredFields == {"season", "phase", "gender", "division", "event_slug", "state"}

\* an event or the defaults of a configuration, as the list of its keys
EventPool ==
    {<<"season", "phase", "gender", "division", "event_slug", "state">>,
     <<"season", "phase", "gender", "division", "event_slug">>,
     <<"event_slug">>}

DefaultsPool == {<<>>, <<"state">>}

\* {**defaults, **event}
_resolve_event(event, dflt) ==
    dflt \o SelectSeq(event, LAMBDA key : key \notin Range(dflt))

\* {field for field in required if field not in event}
_missing_fields(event) == {field \in RequiredFields : field \notin Range(event)}

\* fetch_event with render_js turned on when the caller passes no value
RenderJsDefault_On == TRUE

\* render_js: bool = False, the value of a call that passes none
RenderJsDefault == FALSE

InitCli ==
    \/ Init
    \/ /\ pc = "cli"
       /\ command \in CliCommands
       /\ IF command = "fetch-all"
          THEN /\ config_error \in BOOLEAN
               /\ defaults \in DefaultsPool
               /\ events \in SeqsUpTo(EventPool, MaxEvents)
               /\ dry_run \in BOOLEAN
          ELSE /\ config_error = FALSE
               /\ defaults = <<>>
               /\ events = <<>>
               /\ dry_run = FALSE
       /\ next_event = 1
       /\ statuses = <<>>
       /\ exit_code = 0
       /\ csvfile = NoFile
       /\ render_js = FALSE
       /\ policy = "lenient"
       /\ transport = "none"
       /\ render_outcome = NoOutcome
       /\ content_type = ""
       /\ payload = <<>>
       /\ rendered_payload = <<>>
       /\ parse1 = NoOutcome
       /\ parse2 = NoOutcome
       /\ path1 = ""
       /\ path2 = ""
       /\ result = NoOutcome
       /\ warnings = 0
       /\ urlopenCalls = 0
       /\ parseCalls = 0
       /\ renderCalls = 0

\* scraper.scrape_to_csv(...) up to the entry of self.fetch_event(...), which
\* is given no render_js
EnterScrapeToCsv ==
    /\ pc' = "start"
    /\ render_js' = RenderJsDefault
    /\ transport' = "none"
    /\ render_outcome' = NoOutcome
    /\ content_type' = ""
    /\ payload' = <<>>
    /\ rendered_payload' = <<>>
    /\ parse1' = NoOutcome
    /\ parse2' = NoOutcome
    /\ path1' = ""
    /\ path2' = ""
    /\ result' = NoOutcome
    /\ urlopenCalls' = 0
    /\ parseCalls' = 0
    /\ renderCalls' = 0
    /\ csvfile' = NoFile
    /\ UNCHANGED <<policy, warnings>>

\* how a handler goes on after scrape_to_csv: the file is written, the
\* parser's error is caught and logged, any other exception is not caught
AfterScrapeToCsv(fetched) ==
    LET out == AfterFetchEvent(fetched)
    IN  [file |-> out.file, warned |-> out.warned,
         status |-> IF ~out.raised THEN "written"
                    ELSE IF IsScraperError(fetched) THEN "failed"
                    ELSE "crashed"]

\* handle_fetch up to the call of scrape_to_csv
HandleFetchCalls ==
    /\ pc = "cli"
    /\ command = "fetch"
    /\ EnterScrapeToCsv
    /\ UNCHANGED <<command, config_error, defaults, events, dry_run, next_event,
                   statuses, exit_code>>

\* handle_fetch from the end of fetch_event to its return
HandleFetchReturns ==
    /\ pc = "done"
    /\ command = "fetch"
    /\ LET after == AfterScrapeToCsv(result)
       IN  /\ csvfile' = after.file
           /\ warnings' = warnings + after.warned
           /\ statuses' = Append(statuses, after.status)
           /\ exit_code' = IF after.status = "written" THEN 0 ELSE 1
           /\ pc' = IF after.status = "crashed" THEN "crashed" ELSE "exited"
    /\ UNCHANGED <<render_js, policy, transport, content_type, payload, parse1, path1,
                   render_outcome, rendered_payload, parse2, path2, result,
                   urlopenCalls, parseCalls, renderCalls>>
    /\ UNCHANGED <<command, config_error, defaults, events, dry_run, next_event>>

\* handle_fetch_all: _load_config and, when it raises, return 1
LoadConfig ==
    /\ pc = "cli"
    /\ command = "fetch-all"
    /\ IF config_error
       THEN pc' = "exited" /\ exit_code' = 1
       ELSE pc' = "loop" /\ exit_code' = 0
    /\ UNCHANGED <<render_js, policy, transport, content_type, payload, parse1, path1,
                   render_outcome, rendered_payload, parse2, path2, result, warnings,
                   urlopenCalls, parseCalls, renderCalls>>
    /\ UNCHANGED <<command, config_error, defaults, events, dry_run, next_event,
                   statuses, csvfile>>

\* AfterEvent that ends the run at the first event skipped or failed
AfterEvent_StopOnFailure(status, code) ==
    IF status \in {"skipped", "failed"} THEN [pc |-> "exited", exit_code |-> 1]
    ELSE [pc |-> "loop", exit_code |-> code]

\* how the loop of handle_fetch_all goes on after one event
AfterEvent(status, code) ==
    [pc |-> IF status = "crashed" THEN "crashed" ELSE "loop",
     exit_code |-> IF status \in {"skipped", "failed", "crashed"} THEN 1 ELSE code]

\* the event the loop is at, with the defaults
Resolved == _resolve_event(events[next_event], defaults)

\* an event with missing fields: log, exit_code = 1, continue
SkipEvent ==
    /\ pc = "loop"
    /\ next_event <= Len(events)
    /\ _missing_fields(Resolved) # {}
    /\ LET after == AfterEvent("skipped", exit_code)
       IN  /\ pc' = after.pc
           /\ exit_code' = after.exit_code
    /\ statuses' = Append(statuses, "skipped")
    /\ next_event' = next_event + 1
    /\ UNCHANGED <<render_js, policy, transport, content_type, payload, parse1, path1,
                   render_outcome, rendered_payload, parse2, path2, result, warnings,
                   urlopenCalls, parseCalls, renderCalls>>
    /\ UNCHANGED <<command, config_error, defaults, events, dry_run, csvfile>>

\* if args.dry_run: log, continue
DryRunEvent ==
    /\ pc = "loop"
    /\ next_event <= Len(events)
    /\ _missing_fields(Resolved) = {}
    /\ dry_run
    /\ LET after == AfterEvent("dry-run", exit_code)
       IN  /\ pc' = after.pc
           /\ exit_code' = after.exit_code
    /\ statuses' = Append(statuses, "dry-run")
    /\ next_event' = next_event + 1
    /\ UNCHANGED <<render_js, policy, transport, content_type, payload, parse1, path1,
                   render_outcome, rendered_payload, parse2, path2, result, warnings,
                   urlopenCalls, parseCalls, renderCalls>>
    /\ UNCHANGED <<command, config_error, defaults, events, dry_run, csvfile>>

\* the loop body up to the call of scrape_to_csv
ScrapeEvent ==
    /\ pc = "loop"
    /\ next_event <= Len(events)
    /\ _missing_fields(Resolved) = {}
    /\ ~dry_run
    /\ EnterScrapeToCsv
    /\ UNCHANGED <<command, config_error, defaults, events, dry_run, next_event,
                   statuses, exit_code>>

\* the loop body from the end of fetch_event to the end of the iteration
EventReturns ==
    /\ pc = "done"
    /\ command = "fetch-all"
    /\ LET scraped == AfterScrapeToCsv(result)
           after == AfterEvent(scraped.status, exit_code)
       IN  /\ csvfile' = scraped.file
           /\ warnings' = warnings + scraped.warned
           /\ statuses' = Append(statuses, scraped.status)
           /\ pc' = after.pc
           /\ exit_code' = after.exit_code
    /\ next_event' = next_event + 1
    /\ UNCHANGED <<render_js, policy, transport, content_type, payload, parse1, path1,
                   render_outcome, rendered_payload, parse2, path2, result,
                   urlopenCalls, parseCalls, renderCalls>>
    /\ UNCHANGED <<command, config_error, defaults, events, dry_run>>

\* return exit_code after the last event
LoopEnds ==
    /\ pc = "loop"
    /\ next_event > Len(events)
    /\ pc' = "exited"
    /\ UNCHANGED <<render_js, policy, transport, content_type, payload, parse1, path1,
                   render_outcome, rendered_payload, parse2, path2, result, warnings,
                   urlopenCalls, parseCalls, renderCalls>>
    /\ UNCHANGED cliVars

NextCli ==
    \/ UrlopenResponds
    \/ UrlopenFails
    \/ ParseOriginal
    \/ RenderWith(FlowRenderOutcomes)
    \/ Reparse
    \/ HandleFetchCalls
    \/ HandleFetchReturns
    \/ LoadConfig
    \/ SkipEvent
    \/ DryRunEvent
    \/ ScrapeEvent
    \/ EventReturns
    \/ LoopEnds

SpecCli == InitCli /\ [][NextCli]_vars

(***************************************************************************)
(* Properties of fetch_event (specification Spec).                         *)
(***************************************************************************)
\* the original body failed to parse with the parser's own error
OrigParseFailed == IsScraperError(parse1)

\* C1: in one fetch_event call _fetch_with_playwright is called at most
\* once; it has been called exactly once when the original parse failed and
\* render_js is set, and not again when the rendered body failed to parse too.
C1_RenderAtMostOnce ==
    /\ renderCalls <= 1
    /\ (pc \in {"rendered", "done"} /\ OrigParseFailed /\ render_js) => renderCalls = 1
    /\ (pc = "done" /\ IsScraperError(parse2)) => renderCalls = 1

C1_Witness == pc = "done" /\ renderCalls = 1 /\ OrigParseFailed /\ IsScraperError(parse2)

\* C2: with render_js = False a body that fails to parse makes fetch_event
\* raise SwimMeetScraperError.
C2_DisabledRaises ==
    (pc = "done" /\ ~render_js /\ OrigParseFailed) => IsScraperError(result)

\* the terminal state Failed: the original parse failed and rendering was
\* not permitted, or the rendered body failed to parse too
Failed ==
    /\ pc = "done"
    /\ OrigParseFailed
    /\ ~render_js \/ IsScraperError(parse2)

\* C3: the outcome of Failed follows the caller's policy: strict raises an
\* error, lenient returns no rows and logs a warning.
C3_PolicySelectsOutcome ==
    Failed =>
        /\ policy = "strict" => IsScraperError(result)
        /\ policy = "lenient" => result = Return(<<>>) /\ warnings >= 1

\* the rendered body of the end-to-end scenario: one result element in a
\* results block inside <html><xml>
RenderedOneResult ==
    \E el \in {R_FULL, R_PART} :
        rendered_payload = Wrap("htmlxml", <<RES_O, el, RES_C>>)

\* C4: after a failed original parse the rows of the rendered body, parsed as
\* text/html, are returned; a rendered body with one valid result element
\* gives that one row.
C4_RenderedRowsReturned ==
    /\ (pc = "done" /\ parse2.kind = "return") => result = parse2
    /\ (pc = "done" /\ OrigParseFailed /\ render_js /\ render_outcome.kind = "return"
            /\ RenderedOneResult)
        => result.kind = "return" /\ Len(result.rows) = 1

\* C5: a failure of urlopen ends the fetch with an error whatever render_js
\* is; urlopen is not called again and nothing is parsed or rendered.
C5_TransportFatal ==
    /\ urlopenCalls <= 1
    /\ transport \in TransportFailures =>
           /\ pc = "done"
           /\ IsScraperError(result)
           /\ urlopenCalls = 1
           /\ parseCalls = 0
           /\ renderCalls = 0

C5_Witness == transport = "URLError" /\ render_js /\ pc = "done"

\* C6: when the original parse failed, render_js is set and the renderer is
\* not installed, fetch_event ends with an error and returns no row list.
C6_UnavailableFailsClosed ==
    IsScraperError(render_outcome) =>
        /\ pc = "done"
        /\ result.kind = "raise"
        /\ result = render_outcome
        /\ parse2 = NoOutcome

C6_Witness ==
    /\ pc = "done"
    /\ OrigParseFailed
    /\ render_js
    /\ IsScraperError(render_outcome)

(***************************************************************************)
(* Properties of _parse_payload (specification SpecParse).                 *)
(***************************************************************************)
C7_XmlRule ==
    \/ CtContains(CtLower(content_type), "xml")
    \/ \E i \in 1..Len(payload) : payload[i].lc \in {"<xml>", "<results>"}

C7_JsonRule ==
    \/ CtContains(CtLower(content_type), "json")
    \/ \E i \in 1..Len(payload) :
          /\ payload[i].c0 \in {"{", "["}
          /\ \A j \in 1..(i - 1) : IsSpace(payload[j])

C7_Expected == IF C7_XmlRule THEN "xml" ELSE IF C7_JsonRule THEN "json" ELSE "csv"

\* C7: the parser is chosen by the ordered rule XML, then JSON, then CSV
\* (the content type compared in lower case), and its outcome is the outcome
\* of _parse_payload; application/xml takes the XML parser whatever the body.
C7_SniffOrder ==
    pc = "returned" =>
        /\ path1 = C7_Expected
        /\ parse1 = CASE C7_Expected = "xml" -> _parse_xml_content(payload)
                       [] C7_Expected = "json" -> ParseJson(payload)
                       [] OTHER -> ParseCsv(payload)
        /\ content_type = "application/xml" => path1 = "xml"

C7_Witness ==
    /\ pc = "returned"
    /\ content_type = "application/xml"
    /\ payload = <<J_OBJ>>
    /\ path1 = "xml"

\* the body holds no element named result
NoResultElement ==
    \A i \in 1..Len(payload) : ~(payload[i].kind = "empty" /\ payload[i].name = "result")

\* C8: on the XML path a body without a result element makes _parse_payload
\* raise, and the XML path never returns an empty row list.
C8_XmlEmptyFails ==
    (pc = "returned" /\ path1 = "xml") =>
        /\ NoResultElement => IsScraperError(parse1)
        /\ parse1.kind = "return" => parse1.rows # <<>>

C8_Witness ==
    /\ pc = "returned"
    /\ path1 = "xml"
    /\ NoResultElement
    /\ WellFormed(XmlTextOf(payload), <<>>, FALSE)
    /\ parse1 = ScraperError("XML payload did not include any results")

C9_CanonicalFields == {"rk", "nm", "gr", "sc", "ti", "mt", "auto"}

\* the result elements the returned rows are built from
C9_Elements == FindAllResult(XmlTextOf(payload))

\* C9: every row of the XML path has exactly the canonical fields and the
\* attributes of its element as keys, "" for a canonical field the element
\* lacks and the attribute's value for every attribute.
C9_CanonicalRows ==
    (pc = "returned" /\ path1 = "xml" /\ parse1.kind = "return") =>
        /\ Len(parse1.rows) = Len(C9_Elements)
        /\ \A i \in 1..Len(parse1.rows) :
              LET row == parse1.rows[i]
                  attrib == PyDict(C9_Elements[i].attrs)
              IN  /\ KeySet(row) = C9_CanonicalFields \cup KeySet(attrib)
                  /\ \A k \in KeySet(row) :
                        Get(row, k) = IF HasKey(attrib, k) THEN Get(attrib, k)
                                      ELSE PyStr("")

\* the first results block of the body and the result elements in it
C10_Block == SearchResultsBlock(payload)

C10_BlockResults ==
    SelectSeq(C10_Block, LAMBDA tok : tok.kind = "empty" /\ tok.name = "result")

\* the body is a well-formed results block with a result element, inside an
\* <html> document
C10_WrappedBlock ==
    /\ Contains(payload, "<html", TRUE)
    /\ C10_Block # <<>>
    /\ WellFormed(C10_Block, <<>>, FALSE)
    /\ C10_BlockResults # <<>>
    /\ \A i \in 1..Len(C10_Block) : C10_Block[i].name # "RESULT"

\* C10: a results block wrapped in an <html> document is extracted and gives
\* one row per result element in it, in document order.
C10_WrappedBlockParsed ==
    (pc = "returned" /\ C10_WrappedBlock) =>
        /\ parse1.kind = "return"
        /\ Len(parse1.rows) = Len(C10_BlockResults)
        /\ \A i \in 1..Len(parse1.rows) :
              \A j \in 1..Len(C10_BlockResults[i].attrs) :
                  LET item == C10_BlockResults[i].attrs[j]
                  IN  HasKey(parse1.rows[i], item.k) /\ Get(parse1.rows[i], item.k) = item.v


(***************************************************************************)
(* C11: entity-escaped fragments.                                          *)
(***************************************************************************)
\* html.unescape of one token of the model
C11_UnescapeTok(tok) ==
    CASE tok = E_XML_O -> XML_O
      [] tok = E_XML_C -> XML_C
      [] tok = E_RES_O -> RES_O
      [] tok = E_RES_C -> RES_C
      [] tok = E_R_PART -> R_PART
      [] OTHER -> tok

C11_IsEscaped(tok) == C11_UnescapeTok(tok) # tok

\* the fragment the body embeds, with its entities resolved
C11_Fragment ==
    LET escaped == SelectSeq(payload, C11_IsEscaped)
    IN  [i \in 1..Len(escaped) |-> C11_UnescapeTok(escaped[i])]

C11_InScriptBody ==
    /\ pc = "returned"
    /\ CtLower(content_type) = "text/html"
    /\ payload \in {InScript(f) : f \in EscapedFragments}
    /\ \E i \in 1..Len(payload) : payload[i] = E_R_PART

\* C11: a body whose results fragment sits entity-escaped inside a script
\* block, served as text/html, is parsed on the XML path to the rows that
\* the unescaped fragment gives
C11_EscapedFragmentParsed ==
    C11_InScriptBody =>
        /\ path1 = "xml"
        /\ parse1.kind = "return"
        /\ parse1 = _parse_payload(C11_Fragment, "application/xml")

(***************************************************************************)
(* C12: tag names in any case.                                             *)
(***************************************************************************)
C12_LowerName(name) ==
    CASE name = "RESULT" -> "result"
      [] name = "RESULTS" -> "results"
      [] name = "XML" -> "xml"
      [] OTHER -> name

\* the elements below the root whose tag is result in any case
C12_Elements ==
    SelectSeq(Descendants(XmlTextOf(payload)),
              LAMBDA el : C12_LowerName(el.name) = "result")

C12_XmlDocument ==
    /\ pc = "returned"
    /\ path1 = "xml"
    /\ ~Contains(payload, "<html", TRUE)
    /\ WellFormed(XmlTextOf(payload), <<>>, FALSE)

\* C12: on the XML path every element below the root whose tag is result,
\* in any letter case, gives one row, in document order
C12_AnyCaseResultRows ==
    (C12_XmlDocument /\ C12_Elements # <<>>) =>
        /\ parse1.kind = "return"
        /\ parse1.rows = RowsOfElements(C12_Elements)

(***************************************************************************)
(* C13: the rows of a JSON body.                                           *)
(***************************************************************************)
\* the value json.loads gives for the body
C13_Value == JsonLoads(payload).rows[1]

C13_JsonDecoded ==
    /\ pc = "returned"
    /\ path1 = "json"
    /\ JsonLoads(payload).kind = "return"

\* the row candidates of a decoded object or array
C13_Candidates ==
    IF IsDict(C13_Value)
    THEN IF HasKey(C13_Value, "results") /\ IsList(Get(C13_Value, "results"))
         THEN Get(C13_Value, "results").items
         ELSE <<C13_Value>>
    ELSE C13_Value.items

\* C13: a decoded JSON body that is neither an object nor an array fails the
\* parse; otherwise the candidates are the array under results, else the
\* object itself, else the elements of the top-level array; one candidate
\* that is not an object fails the whole parse, and otherwise the rows are
\* the candidates in order
C13_JsonRowSource ==
    C13_JsonDecoded =>
        IF ~IsDict(C13_Value) /\ ~IsList(C13_Value)
        THEN IsScraperError(parse1)
        ELSE IF \E i \in 1..Len(C13_Candidates) : ~IsDict(C13_Candidates[i])
        THEN IsScraperError(parse1)
        ELSE parse1 = Return(C13_Candidates)

\* an array with objects around a number has been refused as a whole
C13_Witness ==
    /\ C13_JsonDecoded
    /\ IsList(C13_Value)
    /\ \E i \in 1..Len(C13_Candidates) : IsDict(C13_Candidates[i])
    /\ \E i \in 1..Len(C13_Candidates) : ~IsDict(C13_Candidates[i])
    /\ IsScraperError(parse1)

(***************************************************************************)
(* C14: the header of a CSV body.                                          *)
(***************************************************************************)
\* the body has no header columns: it is empty or its first line is blank
C14_NoHeaderColumns ==
    \/ SplitLines(payload) = <<>>
    \/ Cells(SplitLines(payload)[1]) = <<>>

\* C14: a body on the CSV path that has no header columns, an empty body or
\* one whose first line is blank, fails the parse
C14_NoHeaderFails ==
    (pc = "returned" /\ path1 = "csv" /\ C14_NoHeaderColumns) => IsScraperError(parse1)

(***************************************************************************)
(* C15: the written table (specification SpecWrite).                       *)
(***************************************************************************)
\* key is seen in the rows before other: its first occurrence is in an
\* earlier row, or earlier in the same row
C15_SeenBefore(key, other) ==
    \E r \in 1..Len(result.rows) :
        \E i \in 1..Len(result.rows[r].items) :
            /\ result.rows[r].items[i].k = key
            /\ \A r2 \in 1..Len(result.rows) :
                   \A i2 \in 1..Len(result.rows[r2].items) :
                       result.rows[r2].items[i2].k = other =>
                           (r < r2 \/ (r = r2 /\ i < i2))

C15_Header ==
    /\ \A i, j \in 1..Len(csvfile.header) :
           i # j => csvfile.header[i] # csvfile.header[j]
    /\ Range(csvfile.header) = UNION {KeySet(result.rows[r]) : r \in 1..Len(result.rows)}
    /\ \A i, j \in 1..Len(csvfile.header) :
           i < j => C15_SeenBefore(csvfile.header[i], csvfile.header[j])

C15_Cells ==
    /\ Len(csvfile.rows) = Len(result.rows)
    /\ \A r \in 1..Len(csvfile.rows) :
           /\ Len(csvfile.rows[r]) = Len(csvfile.header)
           /\ \A c \in 1..Len(csvfile.header) :
                  csvfile.rows[r][c] =
                      IF HasKey(result.rows[r], csvfile.header[c])
                      THEN CellText(Get(result.rows[r], csvfile.header[c]))
                      ELSE ""

\* C15: the header of the written table is the distinct field names of the
\* rows in the order they are first seen, none repeated, and every written
\* row has one cell per header column, empty where the row lacks the column
C15_TableShape == pc = "written" => (csvfile.written /\ C15_Header /\ C15_Cells)

\* a table whose second row repeats a key of the first and lacks another
C15_Witness ==
    /\ pc = "written"
    /\ Len(result.rows) >= 2
    /\ Len(csvfile.header) >= 2
    /\ KeySet(result.rows[1]) \cap KeySet(result.rows[2]) # {}
    /\ \E c \in 1..Len(csvfile.header) :
           /\ ~HasKey(result.rows[2], csvfile.header[c])
           /\ csvfile.rows[2][c] = ""

(***************************************************************************)
(* C16: the flow of fetch_event (specification FairSpec).                  *)
(***************************************************************************)
C16_Order ==
    /\ urlopenCalls <= 1
    /\ pc # "start" => urlopenCalls = 1
    /\ parseCalls <= 2
    /\ parseCalls >= 1 => transport = "response"
    /\ (pc = "rendering" \/ renderCalls >= 1) =>
           (parseCalls >= 1 /\ IsScraperError(parse1) /\ render_js)
    /\ (pc = "rendered" \/ parseCalls = 2) =>
           (renderCalls = 1 /\ render_outcome.kind = "return"
                            /\ rendered_payload = render_outcome.rows[1])
    /\ pc = "done" <=> result # NoOutcome

C16_Terminal == pc = "done" /\ urlopenCalls = 1 /\ result.kind \in {"return", "raise"}

\* C16: one fetch_event call makes exactly one transport call, enters the
\* renderer only from a failed parse of the original body with rendering
\* permitted, parses again only after the renderer returned a body, parses
\* at most twice, and always ends with a returned row list or a raised error
C16_SingleFlow == []C16_Order /\ <>[]C16_Terminal

\* a call that ended with the rows of the rendered body
C16_Witness ==
    /\ pc = "done"
    /\ parseCalls = 2
    /\ renderCalls = 1
    /\ result.kind = "return"
    /\ result.rows # <<>>

(***************************************************************************)
(* C17: the batch run of handle_fetch_all (specification SpecCli).         *)
(***************************************************************************)
C17_Troubled(status) == status \in {"skipped", "failed"}

C17_InOrder ==
    /\ Len(statuses) = next_event - 1
    /\ Len(statuses) <= Len(events)
    /\ \A i \in 1..Len(statuses) :
           statuses[i] = "skipped" <=>
               _missing_fields(_resolve_event(events[i], defaults)) # {}

\* C17: handle_fetch_all takes the events in their order; an event skipped
\* for missing fields or failed with the scraper's error does not end the
\* run: at the return every event has its outcome, and the exit code is 1
\* when one of them was skipped or failed
C17_BatchGoesOn ==
    command = "fetch-all" =>
        /\ C17_InOrder
        /\ (pc = "exited" /\ ~config_error) =>
               /\ Len(statuses) = Len(events)
               /\ (\E i \in 1..Len(statuses) : C17_Troubled(statuses[i])) =>
                      exit_code = 1

\* a run whose first event failed and whose second event was written
C17_Witness ==
    /\ command = "fetch-all"
    /\ pc = "exited"
    /\ Len(events) = 2
    /\ Len(statuses) = 2
    /\ statuses[1] = "failed"
    /\ statuses[2] = "written"
    /\ exit_code = 1

====
